---- MODULE Spec2Model ----
(***************************************************************************)
(* Model of alihusains/auto-rss: the RSS -> Telegram publisher.            *)
(*                                                                         *)
(* Two script variants are modelled:                                       *)
(*   src/rss_to_telegram.py             (the active code, lines 440-775)   *)
(*   src/rss_to_telegram_automation.py  (the single-file "automation" one) *)
(*                                                                         *)
(* Text is a sequence of Unicode code points (32 = space, 65.. = 'A'..,    *)
(* 97.. = 'a'..), so that strip / lower / split / join and the token-set   *)
(* score are computed the way the code computes them.  Links are opaque    *)
(* strings, "" being the empty link.                                       *)
(***************************************************************************)
EXTENDS Integers, Sequences, FiniteSets, TLC

\* ------------------------------------------------------------------------
\* Program constants
\* ------------------------------------------------------------------------
DEFAULT_FUZZY_THRESHOLD == 88

\* ------------------------------------------------------------------------
\* Text helpers (str.strip, str.lower, str.split, " ".join)
\* ------------------------------------------------------------------------
SP == 32

InRanges(R, c) == \E r \in R : r[1] <= c /\ c <= r[2]

\* The code points str.strip() removes and str.split() separates on
\* (str.isspace), as ranges <<first, last>>
SpaceRanges ==
    { <<9, 13>>, <<28, 32>>, <<133, 133>>, <<160, 160>>, <<5760, 5760>>,
      <<8192, 8202>>, <<8232, 8233>>, <<8239, 8239>>, <<8287, 8287>>,
      <<12288, 12288>> }

IsSpace(c) == InRanges(SpaceRanges, c)

\* Upper-case code points with a one-character lower case, as runs
\* <<first, last, step, offset>>: first, first + step, .. last map to c + offset.
LowerRuns ==
    { <<65, 90, 1, 32>>, <<192, 214, 1, 32>>, <<216, 222, 1, 32>>, <<256, 302, 2, 1>>,
      <<306, 310, 2, 1>>, <<313, 327, 2, 1>>, <<330, 374, 2, 1>>, <<376, 376, 1, -121>>,
      <<377, 381, 2, 1>>, <<385, 385, 1, 210>>, <<386, 388, 2, 1>>, <<390, 390, 1, 206>>,
      <<391, 391, 1, 1>>, <<393, 394, 1, 205>>, <<395, 395, 1, 1>>, <<398, 398, 1, 79>>,
      <<399, 399, 1, 202>>, <<400, 400, 1, 203>>, <<401, 401, 1, 1>>, <<403, 403, 1, 205>>,
      <<404, 404, 1, 207>>, <<406, 406, 1, 211>>, <<407, 407, 1, 209>>, <<408, 408, 1, 1>>,
      <<412, 412, 1, 211>>, <<413, 413, 1, 213>>, <<415, 415, 1, 214>>, <<416, 420, 2, 1>>,
      <<422, 422, 1, 218>>, <<423, 423, 1, 1>>, <<425, 425, 1, 218>>, <<428, 428, 1, 1>>,
      <<430, 430, 1, 218>>, <<431, 431, 1, 1>>, <<433, 434, 1, 217>>, <<435, 437, 2, 1>>,
      <<439, 439, 1, 219>>, <<440, 440, 1, 1>>, <<444, 444, 1, 1>>, <<452, 452, 1, 2>>,
      <<453, 453, 1, 1>>, <<455, 455, 1, 2>>, <<456, 456, 1, 1>>, <<458, 458, 1, 2>>,
      <<459, 475, 2, 1>>, <<478, 494, 2, 1>>, <<497, 497, 1, 2>>, <<498, 500, 2, 1>>,
      <<502, 502, 1, -97>>, <<503, 503, 1, -56>>, <<504, 542, 2, 1>>, <<544, 544, 1, -130>>,
      <<546, 562, 2, 1>>, <<570, 570, 1, 10795>>, <<571, 571, 1, 1>>, <<573, 573, 1, -163>>,
      <<574, 574, 1, 10792>>, <<577, 577, 1, 1>>, <<579, 579, 1, -195>>, <<580, 580, 1, 69>>,
      <<581, 581, 1, 71>>, <<582, 590, 2, 1>>, <<880, 882, 2, 1>>, <<886, 886, 1, 1>>,
      <<895, 895, 1, 116>>, <<902, 902, 1, 38>>, <<904, 906, 1, 37>>, <<908, 908, 1, 64>>,
      <<910, 911, 1, 63>>, <<913, 929, 1, 32>>, <<931, 939, 1, 32>>, <<975, 975, 1, 8>>,
      <<984, 1006, 2, 1>>, <<1012, 1012, 1, -60>>, <<1015, 1015, 1, 1>>, <<1017, 1017, 1, -7>>,
      <<1018, 1018, 1, 1>>, <<1021, 1023, 1, -130>>, <<1024, 1039, 1, 80>>, <<1040, 1071, 1, 32>>,
      <<1120, 1152, 2, 1>>, <<1162, 1214, 2, 1>>, <<1216, 1216, 1, 15>>, <<1217, 1229, 2, 1>>,
      <<1232, 1326, 2, 1>>, <<1329, 1366, 1, 48>>, <<4256, 4293, 1, 7264>>, <<4295, 4295, 1, 7264>>,
      <<4301, 4301, 1, 7264>>, <<5024, 5103, 1, 38864>>, <<5104, 5109, 1, 8>>, <<7312, 7354, 1, -3008>>,
      <<7357, 7359, 1, -3008>>, <<7680, 7828, 2, 1>>, <<7838, 7838, 1, -7615>>, <<7840, 7934, 2, 1>>,
      <<7944, 7951, 1, -8>>, <<7960, 7965, 1, -8>>, <<7976, 7983, 1, -8>>, <<7992, 7999, 1, -8>>,
      <<8008, 8013, 1, -8>>, <<8025, 8031, 2, -8>>, <<8040, 8047, 1, -8>>, <<8072, 8079, 1, -8>>,
      <<8088, 8095, 1, -8>>, <<8104, 8111, 1, -8>>, <<8120, 8121, 1, -8>>, <<8122, 8123, 1, -74>>,
      <<8124, 8124, 1, -9>>, <<8136, 8139, 1, -86>>, <<8140, 8140, 1, -9>>, <<8152, 8153, 1, -8>>,
      <<8154, 8155, 1, -100>>, <<8168, 8169, 1, -8>>, <<8170, 8171, 1, -112>>, <<8172, 8172, 1, -7>>,
      <<8184, 8185, 1, -128>>, <<8186, 8187, 1, -126>>, <<8188, 8188, 1, -9>>, <<8486, 8486, 1, -7517>>,
      <<8490, 8490, 1, -8383>>, <<8491, 8491, 1, -8262>>, <<8498, 8498, 1, 28>>, <<8544, 8559, 1, 16>>,
      <<8579, 8579, 1, 1>>, <<9398, 9423, 1, 26>>, <<11264, 11311, 1, 48>>, <<11360, 11360, 1, 1>>,
      <<11362, 11362, 1, -10743>>, <<11363, 11363, 1, -3814>>, <<11364, 11364, 1, -10727>>, <<11367, 11371, 2, 1>>,
      <<11373, 11373, 1, -10780>>, <<11374, 11374, 1, -10749>>, <<11375, 11375, 1, -10783>>, <<11376, 11376, 1, -10782>>,
      <<11378, 11378, 1, 1>>, <<11381, 11381, 1, 1>>, <<11390, 11391, 1, -10815>>, <<11392, 11490, 2, 1>>,
      <<11499, 11501, 2, 1>>, <<11506, 11506, 1, 1>>, <<42560, 42604, 2, 1>>, <<42624, 42650, 2, 1>>,
      <<42786, 42798, 2, 1>>, <<42802, 42862, 2, 1>>, <<42873, 42875, 2, 1>>, <<42877, 42877, 1, -35332>>,
      <<42878, 42886, 2, 1>>, <<42891, 42891, 1, 1>>, <<42893, 42893, 1, -42280>>, <<42896, 42898, 2, 1>>,
      <<42902, 42920, 2, 1>>, <<42922, 42922, 1, -42308>>, <<42923, 42923, 1, -42319>>, <<42924, 42924, 1, -42315>>,
      <<42925, 42925, 1, -42305>>, <<42926, 42926, 1, -42308>>, <<42928, 42928, 1, -42258>>, <<42929, 42929, 1, -42282>>,
      <<42930, 42930, 1, -42261>>, <<42931, 42931, 1, 928>>, <<42932, 42946, 2, 1>>, <<42948, 42948, 1, -48>>,
      <<42949, 42949, 1, -42307>>, <<42950, 42950, 1, -35384>>, <<42951, 42953, 2, 1>>, <<42960, 42960, 1, 1>>,
      <<42966, 42968, 2, 1>>, <<42997, 42997, 1, 1>>, <<65313, 65338, 1, 32>>, <<66560, 66599, 1, 40>>,
      <<66736, 66771, 1, 40>>, <<66928, 66938, 1, 39>>, <<66940, 66954, 1, 39>>, <<66956, 66962, 1, 39>>,
      <<66964, 66965, 1, 39>>, <<68736, 68786, 1, 64>>, <<71840, 71871, 1, 32>>, <<93760, 93791, 1, 32>>,
      <<125184, 125217, 1, 34>> }

\* Code points with the property Cased, as ranges <<first, last>>
CasedRanges ==
    { <<65, 90>>, <<97, 122>>, <<170, 170>>, <<181, 181>>, <<186, 186>>, <<192, 214>>,
      <<216, 246>>, <<248, 442>>, <<444, 447>>, <<452, 659>>, <<661, 696>>, <<704, 705>>,
      <<736, 740>>, <<837, 837>>, <<880, 883>>, <<886, 887>>, <<890, 893>>, <<895, 895>>,
      <<902, 902>>, <<904, 906>>, <<908, 908>>, <<910, 929>>, <<931, 1013>>, <<1015, 1153>>,
      <<1162, 1327>>, <<1329, 1366>>, <<1376, 1416>>, <<4256, 4293>>, <<4295, 4295>>, <<4301, 4301>>,
      <<4304, 4346>>, <<4349, 4351>>, <<5024, 5109>>, <<5112, 5117>>, <<7296, 7304>>, <<7312, 7354>>,
      <<7357, 7359>>, <<7424, 7615>>, <<7680, 7957>>, <<7960, 7965>>, <<7968, 8005>>, <<8008, 8013>>,
      <<8016, 8023>>, <<8025, 8025>>, <<8027, 8027>>, <<8029, 8029>>, <<8031, 8061>>, <<8064, 8116>>,
      <<8118, 8124>>, <<8126, 8126>>, <<8130, 8132>>, <<8134, 8140>>, <<8144, 8147>>, <<8150, 8155>>,
      <<8160, 8172>>, <<8178, 8180>>, <<8182, 8188>>, <<8305, 8305>>, <<8319, 8319>>, <<8336, 8348>>,
      <<8450, 8450>>, <<8455, 8455>>, <<8458, 8467>>, <<8469, 8469>>, <<8473, 8477>>, <<8484, 8484>>,
      <<8486, 8486>>, <<8488, 8488>>, <<8490, 8493>>, <<8495, 8500>>, <<8505, 8505>>, <<8508, 8511>>,
      <<8517, 8521>>, <<8526, 8526>>, <<8544, 8575>>, <<8579, 8580>>, <<9398, 9449>>, <<11264, 11492>>,
      <<11499, 11502>>, <<11506, 11507>>, <<11520, 11557>>, <<11559, 11559>>, <<11565, 11565>>, <<42560, 42605>>,
      <<42624, 42653>>, <<42786, 42887>>, <<42891, 42894>>, <<42896, 42954>>, <<42960, 42961>>, <<42963, 42963>>,
      <<42965, 42969>>, <<42997, 42998>>, <<43000, 43002>>, <<43824, 43866>>, <<43868, 43880>>, <<43888, 43967>>,
      <<64256, 64262>>, <<64275, 64279>>, <<65313, 65338>>, <<65345, 65370>>, <<66560, 66639>>, <<66736, 66771>>,
      <<66776, 66811>>, <<66928, 66938>>, <<66940, 66954>>, <<66956, 66962>>, <<66964, 66965>>, <<66967, 66977>>,
      <<66979, 66993>>, <<66995, 67001>>, <<67003, 67004>>, <<67456, 67456>>, <<67459, 67461>>, <<67463, 67504>>,
      <<67506, 67514>>, <<68736, 68786>>, <<68800, 68850>>, <<71840, 71903>>, <<93760, 93823>>, <<119808, 119892>>,
      <<119894, 119964>>, <<119966, 119967>>, <<119970, 119970>>, <<119973, 119974>>, <<119977, 119980>>, <<119982, 119993>>,
      <<119995, 119995>>, <<119997, 120003>>, <<120005, 120069>>, <<120071, 120074>>, <<120077, 120084>>, <<120086, 120092>>,
      <<120094, 120121>>, <<120123, 120126>>, <<120128, 120132>>, <<120134, 120134>>, <<120138, 120144>>, <<120146, 120485>>,
      <<120488, 120512>>, <<120514, 120538>>, <<120540, 120570>>, <<120572, 120596>>, <<120598, 120628>>, <<120630, 120654>>,
      <<120656, 120686>>, <<120688, 120712>>, <<120714, 120744>>, <<120746, 120770>>, <<120772, 120779>>, <<122624, 122633>>,
      <<122635, 122654>>, <<125184, 125251>>, <<127280, 127305>>, <<127312, 127337>>, <<127344, 127369>> }

\* Code points with the property Case_Ignorable, as ranges <<first, last>>
CaseIgnorableRanges ==
    { <<39, 39>>, <<46, 46>>, <<58, 58>>, <<94, 94>>, <<96, 96>>, <<168, 168>>,
      <<173, 173>>, <<175, 175>>, <<180, 180>>, <<183, 184>>, <<688, 879>>, <<884, 885>>,
      <<890, 890>>, <<900, 901>>, <<903, 903>>, <<1155, 1161>>, <<1369, 1369>>, <<1375, 1375>>,
      <<1425, 1469>>, <<1471, 1471>>, <<1473, 1474>>, <<1476, 1477>>, <<1479, 1479>>, <<1524, 1524>>,
      <<1536, 1541>>, <<1552, 1562>>, <<1564, 1564>>, <<1600, 1600>>, <<1611, 1631>>, <<1648, 1648>>,
      <<1750, 1757>>, <<1759, 1768>>, <<1770, 1773>>, <<1807, 1807>>, <<1809, 1809>>, <<1840, 1866>>,
      <<1958, 1968>>, <<2027, 2037>>, <<2042, 2042>>, <<2045, 2045>>, <<2070, 2093>>, <<2137, 2139>>,
      <<2184, 2184>>, <<2192, 2193>>, <<2200, 2207>>, <<2249, 2306>>, <<2362, 2362>>, <<2364, 2364>>,
      <<2369, 2376>>, <<2381, 2381>>, <<2385, 2391>>, <<2402, 2403>>, <<2417, 2417>>, <<2433, 2433>>,
      <<2492, 2492>>, <<2497, 2500>>, <<2509, 2509>>, <<2530, 2531>>, <<2558, 2558>>, <<2561, 2562>>,
      <<2620, 2620>>, <<2625, 2626>>, <<2631, 2632>>, <<2635, 2637>>, <<2641, 2641>>, <<2672, 2673>>,
      <<2677, 2677>>, <<2689, 2690>>, <<2748, 2748>>, <<2753, 2757>>, <<2759, 2760>>, <<2765, 2765>>,
      <<2786, 2787>>, <<2810, 2815>>, <<2817, 2817>>, <<2876, 2876>>, <<2879, 2879>>, <<2881, 2884>>,
      <<2893, 2893>>, <<2901, 2902>>, <<2914, 2915>>, <<2946, 2946>>, <<3008, 3008>>, <<3021, 3021>>,
      <<3072, 3072>>, <<3076, 3076>>, <<3132, 3132>>, <<3134, 3136>>, <<3142, 3144>>, <<3146, 3149>>,
      <<3157, 3158>>, <<3170, 3171>>, <<3201, 3201>>, <<3260, 3260>>, <<3263, 3263>>, <<3270, 3270>>,
      <<3276, 3277>>, <<3298, 3299>>, <<3328, 3329>>, <<3387, 3388>>, <<3393, 3396>>, <<3405, 3405>>,
      <<3426, 3427>>, <<3457, 3457>>, <<3530, 3530>>, <<3538, 3540>>, <<3542, 3542>>, <<3633, 3633>>,
      <<3636, 3642>>, <<3654, 3662>>, <<3761, 3761>>, <<3764, 3772>>, <<3782, 3782>>, <<3784, 3789>>,
      <<3864, 3865>>, <<3893, 3893>>, <<3895, 3895>>, <<3897, 3897>>, <<3953, 3966>>, <<3968, 3972>>,
      <<3974, 3975>>, <<3981, 3991>>, <<3993, 4028>>, <<4038, 4038>>, <<4141, 4144>>, <<4146, 4151>>,
      <<4153, 4154>>, <<4157, 4158>>, <<4184, 4185>>, <<4190, 4192>>, <<4209, 4212>>, <<4226, 4226>>,
      <<4229, 4230>>, <<4237, 4237>>, <<4253, 4253>>, <<4348, 4348>>, <<4957, 4959>>, <<5906, 5908>>,
      <<5938, 5939>>, <<5970, 5971>>, <<6002, 6003>>, <<6068, 6069>>, <<6071, 6077>>, <<6086, 6086>>,
      <<6089, 6099>>, <<6103, 6103>>, <<6109, 6109>>, <<6155, 6159>>, <<6211, 6211>>, <<6277, 6278>>,
      <<6313, 6313>>, <<6432, 6434>>, <<6439, 6440>>, <<6450, 6450>>, <<6457, 6459>>, <<6679, 6680>>,
      <<6683, 6683>>, <<6742, 6742>>, <<6744, 6750>>, <<6752, 6752>>, <<6754, 6754>>, <<6757, 6764>>,
      <<6771, 6780>>, <<6783, 6783>>, <<6823, 6823>>, <<6832, 6862>>, <<6912, 6915>>, <<6964, 6964>>,
      <<6966, 6970>>, <<6972, 6972>>, <<6978, 6978>>, <<7019, 7027>>, <<7040, 7041>>, <<7074, 7077>>,
      <<7080, 7081>>, <<7083, 7085>>, <<7142, 7142>>, <<7144, 7145>>, <<7149, 7149>>, <<7151, 7153>>,
      <<7212, 7219>>, <<7222, 7223>>, <<7288, 7293>>, <<7376, 7378>>, <<7380, 7392>>, <<7394, 7400>>,
      <<7405, 7405>>, <<7412, 7412>>, <<7416, 7417>>, <<7468, 7530>>, <<7544, 7544>>, <<7579, 7679>>,
      <<8125, 8125>>, <<8127, 8129>>, <<8141, 8143>>, <<8157, 8159>>, <<8173, 8175>>, <<8189, 8190>>,
      <<8203, 8207>>, <<8216, 8217>>, <<8228, 8228>>, <<8231, 8231>>, <<8234, 8238>>, <<8288, 8292>>,
      <<8294, 8303>>, <<8305, 8305>>, <<8319, 8319>>, <<8336, 8348>>, <<8400, 8432>>, <<11388, 11389>>,
      <<11503, 11505>>, <<11631, 11631>>, <<11647, 11647>>, <<11744, 11775>>, <<11823, 11823>>, <<12293, 12293>>,
      <<12330, 12333>>, <<12337, 12341>>, <<12347, 12347>>, <<12441, 12446>>, <<12540, 12542>>, <<40981, 40981>>,
      <<42232, 42237>>, <<42508, 42508>>, <<42607, 42610>>, <<42612, 42621>>, <<42623, 42623>>, <<42652, 42655>>,
      <<42736, 42737>>, <<42752, 42785>>, <<42864, 42864>>, <<42888, 42890>>, <<42994, 42996>>, <<43000, 43001>>,
      <<43010, 43010>>, <<43014, 43014>>, <<43019, 43019>>, <<43045, 43046>>, <<43052, 43052>>, <<43204, 43205>>,
      <<43232, 43249>>, <<43263, 43263>>, <<43302, 43309>>, <<43335, 43345>>, <<43392, 43394>>, <<43443, 43443>>,
      <<43446, 43449>>, <<43452, 43453>>, <<43471, 43471>>, <<43493, 43494>>, <<43561, 43566>>, <<43569, 43570>>,
      <<43573, 43574>>, <<43587, 43587>>, <<43596, 43596>>, <<43632, 43632>>, <<43644, 43644>>, <<43696, 43696>>,
      <<43698, 43700>>, <<43703, 43704>>, <<43710, 43711>>, <<43713, 43713>>, <<43741, 43741>>, <<43756, 43757>>,
      <<43763, 43764>>, <<43766, 43766>>, <<43867, 43871>>, <<43881, 43883>>, <<44005, 44005>>, <<44008, 44008>>,
      <<44013, 44013>>, <<64286, 64286>>, <<64434, 64450>>, <<65024, 65039>>, <<65043, 65043>>, <<65056, 65071>>,
      <<65106, 65106>>, <<65109, 65109>>, <<65279, 65279>>, <<65287, 65287>>, <<65294, 65294>>, <<65306, 65306>>,
      <<65342, 65342>>, <<65344, 65344>>, <<65392, 65392>>, <<65438, 65439>>, <<65507, 65507>>, <<65529, 65531>>,
      <<66045, 66045>>, <<66272, 66272>>, <<66422, 66426>>, <<67456, 67461>>, <<67463, 67504>>, <<67506, 67514>>,
      <<68097, 68099>>, <<68101, 68102>>, <<68108, 68111>>, <<68152, 68154>>, <<68159, 68159>>, <<68325, 68326>>,
      <<68900, 68903>>, <<69291, 69292>>, <<69446, 69456>>, <<69506, 69509>>, <<69633, 69633>>, <<69688, 69702>>,
      <<69744, 69744>>, <<69747, 69748>>, <<69759, 69761>>, <<69811, 69814>>, <<69817, 69818>>, <<69821, 69821>>,
      <<69826, 69826>>, <<69837, 69837>>, <<69888, 69890>>, <<69927, 69931>>, <<69933, 69940>>, <<70003, 70003>>,
      <<70016, 70017>>, <<70070, 70078>>, <<70089, 70092>>, <<70095, 70095>>, <<70191, 70193>>, <<70196, 70196>>,
      <<70198, 70199>>, <<70206, 70206>>, <<70367, 70367>>, <<70371, 70378>>, <<70400, 70401>>, <<70459, 70460>>,
      <<70464, 70464>>, <<70502, 70508>>, <<70512, 70516>>, <<70712, 70719>>, <<70722, 70724>>, <<70726, 70726>>,
      <<70750, 70750>>, <<70835, 70840>>, <<70842, 70842>>, <<70847, 70848>>, <<70850, 70851>>, <<71090, 71093>>,
      <<71100, 71101>>, <<71103, 71104>>, <<71132, 71133>>, <<71219, 71226>>, <<71229, 71229>>, <<71231, 71232>>,
      <<71339, 71339>>, <<71341, 71341>>, <<71344, 71349>>, <<71351, 71351>>, <<71453, 71455>>, <<71458, 71461>>,
      <<71463, 71467>>, <<71727, 71735>>, <<71737, 71738>>, <<71995, 71996>>, <<71998, 71998>>, <<72003, 72003>>,
      <<72148, 72151>>, <<72154, 72155>>, <<72160, 72160>>, <<72193, 72202>>, <<72243, 72248>>, <<72251, 72254>>,
      <<72263, 72263>>, <<72273, 72278>>, <<72281, 72283>>, <<72330, 72342>>, <<72344, 72345>>, <<72752, 72758>>,
      <<72760, 72765>>, <<72767, 72767>>, <<72850, 72871>>, <<72874, 72880>>, <<72882, 72883>>, <<72885, 72886>>,
      <<73009, 73014>>, <<73018, 73018>>, <<73020, 73021>>, <<73023, 73029>>, <<73031, 73031>>, <<73104, 73105>>,
      <<73109, 73109>>, <<73111, 73111>>, <<73459, 73460>>, <<78896, 78904>>, <<92912, 92916>>, <<92976, 92982>>,
      <<92992, 92995>>, <<94031, 94031>>, <<94095, 94111>>, <<94176, 94177>>, <<94179, 94180>>, <<110576, 110579>>,
      <<110581, 110587>>, <<110589, 110590>>, <<113821, 113822>>, <<113824, 113827>>, <<118528, 118573>>, <<118576, 118598>>,
      <<119143, 119145>>, <<119155, 119170>>, <<119173, 119179>>, <<119210, 119213>>, <<119362, 119364>>, <<121344, 121398>>,
      <<121403, 121452>>, <<121461, 121461>>, <<121476, 121476>>, <<121499, 121503>>, <<121505, 121519>>, <<122880, 122886>>,
      <<122888, 122904>>, <<122907, 122913>>, <<122915, 122916>>, <<122918, 122922>>, <<123184, 123197>>, <<123566, 123566>>,
      <<123628, 123631>>, <<125136, 125142>>, <<125252, 125259>>, <<127995, 127999>>, <<917505, 917505>>, <<917536, 917631>>,
      <<917760, 917999>> }

IsCased(c) == InRanges(CasedRanges, c)

IsCaseIgnorable(c) == InRanges(CaseIgnorableRanges, c)

\* The lower case of c given the runs that hold c (none, or one)
LowerIn(hits, c) ==
    IF hits = {} THEN <<c>> ELSE <<c + (CHOOSE r \in hits : TRUE)[4]>>

\* str.lower() of one character: 'I' with dot above (304) becomes 'i' and a
\* combining dot (two code points), every other character one code point
\* (an ASCII character is lowered without the tables, as CPython does).
LowerChar(c) ==
    IF c < 128 THEN <<IF c >= 65 /\ c <= 90 THEN c + 32 ELSE c>>
    ELSE IF c = 304 THEN <<105, 775>>
    ELSE LowerIn({r \in LowerRuns :
                     r[1] <= c /\ c <= r[2] /\ (c - r[1]) % r[3] = 0}, c)

\* Capital sigma
SIGMA == 931

\* The condition of the final sigma, from the positions around i whose
\* character is not case-ignorable and from those whose character is cased
FinalSigmaAt(i, solid, cased) ==
    LET before == {j \in solid : j < i}
        after  == {j \in solid : j > i}
    IN  /\ before # {}
        /\ (CHOOSE j \in before : \A k \in before : k <= j) \in cased
        /\ \/ after = {}
           \/ (CHOOSE j \in after : \A k \in after : j <= k) \notin cased

\* str.lower() writes a capital sigma as the final form (962) when the
\* nearest character before it that is not case-ignorable is cased and the
\* nearest such character after it, if any, is not cased.
FinalSigma(s, i) ==
    FinalSigmaAt(i, {j \in 1..Len(s) : ~IsCaseIgnorable(s[j])},
                    {j \in 1..Len(s) : IsCased(s[j])})

RECURSIVE LowerFrom(_, _)
LowerFrom(s, i) ==
    IF i > Len(s) THEN <<>>
    ELSE (IF s[i] = SIGMA
          THEN <<IF FinalSigma(s, i) THEN 962 ELSE 963>>
          ELSE LowerChar(s[i])) \o LowerFrom(s, i + 1)

Lower(s) == LowerFrom(s, 1)

RECURSIVE LStrip(_)
LStrip(s) == IF s # <<>> /\ IsSpace(Head(s)) THEN LStrip(Tail(s)) ELSE s

RECURSIVE RStrip(_)
RStrip(s) ==
    IF s # <<>> /\ IsSpace(s[Len(s)]) THEN RStrip(SubSeq(s, 1, Len(s) - 1)) ELSE s

Strip(s) == RStrip(LStrip(s))

\* str.split(): the maximal runs of non-whitespace characters, in order.
RECURSIVE SplitFrom(_, _, _)
SplitFrom(s, i, cur) ==
    IF i > Len(s)
    THEN IF cur = <<>> THEN <<>> ELSE <<cur>>
    ELSE IF IsSpace(s[i])
         THEN IF cur = <<>>
              THEN SplitFrom(s, i + 1, <<>>)
              ELSE <<cur>> \o SplitFrom(s, i + 1, <<>>)
         ELSE SplitFrom(s, i + 1, Append(cur, s[i]))

Split(s) == SplitFrom(s, 1, <<>>)

\* " ".join(tokens)
RECURSIVE Join(_)
Join(toks) ==
    IF toks = <<>> THEN <<>>
    ELSE IF Len(toks) = 1 THEN toks[1]
    ELSE toks[1] \o <<SP>> \o Join(Tail(toks))

\* normalize_text without .lower()
normalize_text_keep_case(s) == IF s = <<>> THEN <<>> ELSE Join(Split(Strip(s)))

\* normalize_text: " ".join(s.strip().lower().split()) if s else ""
normalize_text(s) == IF s = <<>> THEN <<>> ELSE Join(Split(Lower(Strip(s))))

\* ------------------------------------------------------------------------
\* rapidfuzz.fuzz.token_set_ratio, as called by is_duplicate
\* ------------------------------------------------------------------------
\* Python's str ordering: lexicographic on code points.
RECURSIVE StrLess(_, _)
StrLess(a, b) ==
    IF b = <<>> THEN FALSE
    ELSE IF a = <<>> THEN TRUE
    ELSE IF Head(a) < Head(b) THEN TRUE
    ELSE IF Head(a) > Head(b) THEN FALSE
    ELSE StrLess(Tail(a), Tail(b))

\* sorted(tokens) for a set of distinct tokens
RECURSIVE Sorted(_)
Sorted(S) ==
    IF S = {} THEN <<>>
    ELSE LET m == CHOOSE x \in S : \A y \in S \ {x} : StrLess(x, y)
         IN  <<m>> \o Sorted(S \ {m})

\* length of a longest common subsequence
RECURSIVE LCS(_, _)
LCS(a, b) ==
    IF a = <<>> \/ b = <<>> THEN 0
    ELSE IF Head(a) = Head(b) THEN 1 + LCS(Tail(a), Tail(b))
    ELSE LET x == LCS(Tail(a), b)
             y == LCS(a, Tail(b))
         IN  IF x >= y THEN x ELSE y

\* Indel distance: insertions + deletions turning a into b
indel_distance(a, b) == Len(a) + Len(b) - 2 * LCS(a, b)

\* A score 100 - 100 * dist / lensum is kept as the exact fraction
\* 100 * num / den  (num = lensum - dist, den = lensum); lensum = 0 scores 100.
norm_distance(dist, lensum) ==
    IF lensum > 0 THEN [num |-> lensum - dist, den |-> lensum]
    ELSE [num |-> 1, den |-> 1]

ScoreZero == [num |-> 0, den |-> 1]

ScoreHundred == [num |-> 1, den |-> 1]

ScoreMax(x, y) == IF x.num * y.den >= y.num * x.den THEN x ELSE y

\* score >= threshold, for an integer threshold
ScoreAtLeast(x, th) == 100 * x.num >= th * x.den

\* The set of the tokens of a list
TokenSetOf(toks) == {toks[i] : i \in 1..Len(toks)}

TokenSet(s) == TokenSetOf(Split(s))

\* The score from the joined sorted tokens: the common ones (their length),
\* those of the first string only and those of the second only
token_set_score(sect_len, diff_ab_joined, diff_ba_joined) ==
    LET ab_len    == Len(diff_ab_joined)
        ba_len    == Len(diff_ba_joined)
        sep       == IF sect_len # 0 THEN 1 ELSE 0
        result    == norm_distance(indel_distance(diff_ab_joined, diff_ba_joined),
                                   2 * (sect_len + sep) + ab_len + ba_len)
        sect_ab_ratio == norm_distance(sep + ab_len, 2 * sect_len + sep + ab_len)
        sect_ba_ratio == norm_distance(sep + ba_len, 2 * sect_len + sep + ba_len)
    IN  IF sect_len = 0 THEN result
        ELSE ScoreMax(result, ScoreMax(sect_ab_ratio, sect_ba_ratio))

token_set_of(tokens_a, tokens_b) ==
    IF tokens_a = {} \/ tokens_b = {} THEN ScoreZero
    ELSE IF tokens_a \cap tokens_b # {}
            /\ (tokens_a \subseteq tokens_b \/ tokens_b \subseteq tokens_a)
    THEN ScoreHundred
    ELSE token_set_score(Len(Join(Sorted(tokens_a \cap tokens_b))),
                         Join(Sorted(tokens_a \ tokens_b)),
                         Join(Sorted(tokens_b \ tokens_a)))

token_set_ratio(s1, s2) ==
    IF s1 = <<>> \/ s2 = <<>> THEN ScoreZero
    ELSE token_set_of(TokenSet(s1), TokenSet(s2))

\* ------------------------------------------------------------------------
\* Bounds of the model
\* ------------------------------------------------------------------------
MaxRuns == 2

MaxFeeds == 2

\* feed entries handled, over all runs
MaxEntries == 2

\* ------------------------------------------------------------------------
\* Inputs: links, titles, feed entries, thresholds, state-file contents
\* ------------------------------------------------------------------------
NoLink == ""

\* "a b"
T_ab == <<97, 32, 98>>

\* "B\t a": the words of "a b" reordered, upper-cased, separated by a tab
\* and a space
T_Ba == <<66, 9, 32, 97>>

\* "a c": shares one word of two with "a b" (score 66.67)
T_ac == <<97, 32, 99>>

\* "b A b": the words of "a b" reordered, one upper-cased, one repeated
T_bAb == <<98, 32, 65, 32, 98>>

\* '\"': a backslash and a double quote, the characters json.dump escapes
T_esc == <<92, 34>>

\* " ": whitespace only
T_ws == <<32>>

\* "": empty
T_empty == <<>>

Titles == {T_ab, T_Ba, T_ac, T_bAb, T_esc, T_ws, T_empty}

\* What feedparser hands to the loop body: link = e.link or e.id or "",
\* title = e.title or "".
Entries ==
    { [link |-> "L1",   title |-> T_ab],
      [link |-> "L1",   title |-> T_ac],
      [link |-> "L2",   title |-> T_Ba],
      [link |-> NoLink, title |-> T_ab],
      [link |-> NoLink, title |-> T_bAb],
      [link |-> NoLink, title |-> T_esc],
      [link |-> "L2",   title |-> T_ws],
      [link |-> NoLink, title |-> T_ws],
      [link |-> NoLink, title |-> T_empty] }

\* The entries the feeds of Spec and SpecAutomation serve
RunEntries ==
    { [link |-> "L1",   title |-> T_ab],
      [link |-> "L1",   title |-> T_ac],
      [link |-> "L2",   title |-> T_Ba],
      [link |-> NoLink, title |-> T_ab],
      [link |-> NoLink, title |-> T_ws],
      [link |-> NoLink, title |-> T_empty] }

\* The entries the feeds of SpecRetry serve
RetryEntries ==
    { [link |-> "L1",   title |-> T_ab],
      [link |-> "L2",   title |-> T_Ba],
      [link |-> NoLink, title |-> T_esc],
      [link |-> NoLink, title |-> T_ws],
      [link |-> NoLink, title |-> T_empty] }

\* The threshold of the runs of Spec
Thresholds == {DEFAULT_FUZZY_THRESHOLD}

\* A stored record (record_posted): link, title and posted_at (the number of
\* the run stands for the clock).  summary, top_image, published, category and
\* fingerprint are written once and never read by the program.
Rec(link, title, at) ==
    [link |-> link, title |-> title, posted_at |-> at]

\* json.dump(..., ensure_ascii=False) of a str: the text between double
\* quotes; '"' and '\' are escaped by a backslash, the control characters
\* below 32 are written \n, \r, \t, \b, \f or \u00xx, every other character
\* is written as it is.
QUOTE == 34

BACKSLASH == 92

\* '0'..'9', 'a'..'f'
HexDigit(n) == IF n < 10 THEN 48 + n ELSE 87 + n

json_escape_char(c) ==
    IF c = QUOTE THEN <<BACKSLASH, QUOTE>>
    ELSE IF c = BACKSLASH THEN <<BACKSLASH, BACKSLASH>>
    ELSE IF c = 10 THEN <<BACKSLASH, 110>>
    ELSE IF c = 13 THEN <<BACKSLASH, 114>>
    ELSE IF c = 9 THEN <<BACKSLASH, 116>>
    ELSE IF c = 8 THEN <<BACKSLASH, 98>>
    ELSE IF c = 12 THEN <<BACKSLASH, 102>>
    ELSE IF c < 32
         THEN <<BACKSLASH, 117, 48, 48, HexDigit(c \div 16), HexDigit(c % 16)>>
         ELSE <<c>>

RECURSIVE json_escape(_)
json_escape(s) ==
    IF s = <<>> THEN <<>> ELSE json_escape_char(Head(s)) \o json_escape(Tail(s))

\* json_string without the escaping
json_string_raw(s) == <<QUOTE>> \o s \o <<QUOTE>>

json_string(s) == <<QUOTE>> \o json_escape(s) \o <<QUOTE>>

\* Value of a hexadecimal digit
HexVal(d) ==
    IF d >= 48 /\ d <= 57 THEN d - 48
    ELSE IF d >= 97 /\ d <= 102 THEN d - 87
    ELSE d - 55

\* The four hexadecimal digits s[i..i+3] as a number
Hex4(s, i) ==
    4096 * HexVal(s[i]) + 256 * HexVal(s[i + 1]) + 16 * HexVal(s[i + 2]) + HexVal(s[i + 3])

\* s[i..] starts with \uXXXX
IsUEscape(s, i) == Len(s) >= i + 5 /\ s[i] = BACKSLASH /\ s[i + 1] = 117

\* The character a one-letter escape stands for
json_unescape_char(c) ==
    IF c = 110 THEN 10
    ELSE IF c = 114 THEN 13
    ELSE IF c = 116 THEN 9
    ELSE IF c = 98 THEN 8
    ELSE IF c = 102 THEN 12
    ELSE c

\* json.load of a string literal: the quotes are dropped; \", \\, \/ stand
\* for the character after the backslash, \n \r \t \b \f for the control
\* character, \uXXXX for the code point, two of them (a surrogate pair) for
\* one code point above 65535.
RECURSIVE json_unescape(_)
json_unescape(s) ==
    IF s = <<>> THEN <<>>
    ELSE IF IsUEscape(s, 1)
         THEN LET hi == Hex4(s, 3)
              IN  IF /\ hi >= 55296 /\ hi <= 56319
                     /\ IsUEscape(s, 7)
                     /\ Hex4(s, 9) >= 56320 /\ Hex4(s, 9) <= 57343
                  THEN <<65536 + 1024 * (hi - 55296) + (Hex4(s, 9) - 56320)>>
                           \o json_unescape(SubSeq(s, 13, Len(s)))
                  ELSE <<hi>> \o json_unescape(SubSeq(s, 7, Len(s)))
    ELSE IF Head(s) = BACKSLASH /\ Len(s) >= 2
         THEN <<json_unescape_char(s[2])>> \o json_unescape(SubSeq(s, 3, Len(s)))
         ELSE <<Head(s)>> \o json_unescape(Tail(s))

json_parse_string(j) == json_unescape(SubSeq(j, 2, Len(j) - 1))

\* One record as written to and read from the state file: the title is JSON
\* text; the link and posted_at, opaque in the model, are kept as they are.
json_dump_item(r) ==
    [link |-> r.link, title |-> json_string(r.title), posted_at |-> r.posted_at]

json_load_item(j) ==
    [link |-> j.link, title |-> json_parse_string(j.title), posted_at |-> j.posted_at]

\* State-file contents.
\*   missing : no file at the path
\*   empty   : a zero-length file (not JSON)
\*   partial : a proper prefix of a JSON document (not JSON); items = the
\*             records written so far
\*   nondict : valid JSON that is not an object (a list, null, a number)
\*   noitems : a JSON object without the key "items" ({} for instance)
\*   store   : {"items": [...]}, items = the records as JSON
FileMissing == [kind |-> "missing", items |-> <<>>]

FileEmpty == [kind |-> "empty", items |-> <<>>]

FilePartial(items) == [kind |-> "partial", items |-> items]

FileNonDict == [kind |-> "nondict", items |-> <<>>]

FileNoItems == [kind |-> "noitems", items |-> <<>>]

FileStore(items) == [kind |-> "store", items |-> items]

\* The state file written for the records recs
StoreFile(recs) == FileStore([i \in 1..Len(recs) |-> json_dump_item(recs[i])])

InitFiles ==
    { FileMissing, FileEmpty, FileNonDict, FileNoItems,
      StoreFile(<<Rec("L1", T_ab, 0)>>) }

\* In-memory value of `posted`
PostedDict(items) == [kind |-> "dict", items |-> items]

PostedNonDict == [kind |-> "nondict", items |-> <<>>]

\* A dict without the key "items"
PostedNoItems == [kind |-> "noitems", items |-> <<>>]

PostedNone == [kind |-> "none", items |-> <<>>]

\* ------------------------------------------------------------------------
\* Persistence (rss_to_telegram.py)
\* ------------------------------------------------------------------------
\* load_posted(path): read_error is open()/read() raising on an existing file.
\* A dict without "items" is read by is_duplicate with .get("items", []) and
\* filled by record_posted with .setdefault("items", []): it is the store
\* without records.
load_posted(f, read_error) ==
    IF f.kind = "missing" THEN PostedDict(<<>>)
    ELSE IF read_error THEN PostedDict(<<>>)
    ELSE IF f.kind \in {"empty", "partial"} THEN PostedDict(<<>>)
    ELSE IF f.kind = "nondict" THEN PostedNonDict
    ELSE IF f.kind = "noitems" THEN PostedDict(<<>>)
    ELSE PostedDict([i \in 1..Len(f.items) |-> json_load_item(f.items[i])])

\* record_posted: posted_data.setdefault("items", []).append({...}); raises
\* AttributeError when posted_data is not a dict.
record_posted_raises(posted_data) == posted_data.kind # "dict"

\* record_posted inserting the record at the front of the list
record_posted_front(posted_data, entry_link, title, now) ==
    PostedDict(<<Rec(entry_link, title, now)>> \o posted_data.items)

record_posted(posted_data, entry_link, title, now) ==
    PostedDict(Append(posted_data.items, Rec(entry_link, title, now)))

\* json.dump(data, f): the document written for the in-memory store
Document(posted_data) == StoreFile(posted_data.items)

\* ------------------------------------------------------------------------
\* Deduplication (rss_to_telegram.py)
\* ------------------------------------------------------------------------
ExactLinkMatch(items, entry_link) ==
    \E i \in 1..Len(items) : items[i].link = entry_link

Normalized(t) == normalize_text(t)

NormTitles == {normalize_text(t) : t \in Titles}

\* token_set_ratio tabulated once over the normalised titles of the model
\* (the values are those of the operator above)
RatioRows(N) == [a \in N |-> [b \in N |-> token_set_ratio(a, b)]]

RatioTable == RatioRows(NormTitles)

RatioIn(T, a, b) ==
    IF a \in DOMAIN T /\ b \in DOMAIN T THEN T[a][b] ELSE token_set_ratio(a, b)

Ratio(a, b) == RatioIn(RatioTable, a, b)

\* `if t and fuzz.token_set_ratio(title_norm, t) >= fuzzy_threshold`
FuzzyHit(t, title_norm, fuzzy_threshold) ==
    t # <<>> /\ ScoreAtLeast(Ratio(title_norm, t), fuzzy_threshold)

FuzzyTitleMatch(items, title_norm, fuzzy_threshold) ==
    \E i \in 1..Len(items) :
        FuzzyHit(Normalized(items[i].title), title_norm, fuzzy_threshold)

\* The number of fuzz.token_set_ratio calls is_duplicate makes (line 650): none
\* when the exact-link pass returns or title_norm is empty; otherwise one per
\* stored title that is not blank, up to the first that reaches the threshold.
RECURSIVE RatioCallsFrom(_, _, _, _)
RatioCallsFrom(norms, i, title_norm, fuzzy_threshold) ==
    IF i > Len(norms) THEN 0
    ELSE IF norms[i] = <<>>
         THEN RatioCallsFrom(norms, i + 1, title_norm, fuzzy_threshold)
    ELSE IF ScoreAtLeast(Ratio(title_norm, norms[i]), fuzzy_threshold) THEN 1
    ELSE 1 + RatioCallsFrom(norms, i + 1, title_norm, fuzzy_threshold)

\* The normalised titles of the records, in order
NormalizedTitles(items) == [i \in 1..Len(items) |-> Normalized(items[i].title)]

ratio_calls_of(posted_data, entry_link, title_norm, fuzzy_threshold) ==
    IF entry_link # NoLink /\ ExactLinkMatch(posted_data.items, entry_link) THEN 0
    ELSE IF title_norm = <<>> THEN 0
    ELSE RatioCallsFrom(NormalizedTitles(posted_data.items), 1, title_norm,
                        fuzzy_threshold)

token_set_ratio_calls(posted_data, entry_link, entry_title, fuzzy_threshold) ==
    ratio_calls_of(posted_data, entry_link, Normalized(entry_title), fuzzy_threshold)

\* posted_data.get(...) is reached (and raises on a non-dict) only under
\* `if entry_link` or `if title_norm`.
is_duplicate_raises(posted_data, entry_link, entry_title) ==
    /\ posted_data.kind # "dict"
    /\ (entry_link # NoLink \/ Normalized(entry_title) # <<>>)

\* is_duplicate without the exact-link pass
is_duplicate_title_only(posted_data, entry_link, entry_title, fuzzy_threshold) ==
    IF Normalized(entry_title) # <<>>
       /\ FuzzyTitleMatch(posted_data.items, Normalized(entry_title), fuzzy_threshold)
    THEN [dup |-> TRUE, reason |-> "fuzzy_title"]
    ELSE [dup |-> FALSE, reason |-> "none"]

\* is_duplicate with the fuzzy-title pass made before the exact-link pass
is_duplicate_fuzzy_first(posted_data, entry_link, entry_title, fuzzy_threshold) ==
    LET title_norm == Normalized(entry_title)
    IN  IF title_norm # <<>>
           /\ FuzzyTitleMatch(posted_data.items, title_norm, fuzzy_threshold)
        THEN [dup |-> TRUE, reason |-> "fuzzy_title"]
        ELSE IF entry_link # NoLink /\ ExactLinkMatch(posted_data.items, entry_link)
        THEN [dup |-> TRUE, reason |-> "exact_link"]
        ELSE [dup |-> FALSE, reason |-> "none"]

\* is_duplicate without the `if title_norm:` test
is_duplicate_blank_compared(posted_data, entry_link, entry_title, fuzzy_threshold) ==
    IF entry_link # NoLink /\ ExactLinkMatch(posted_data.items, entry_link)
    THEN [dup |-> TRUE, reason |-> "exact_link"]
    ELSE IF FuzzyTitleMatch(posted_data.items, Normalized(entry_title), fuzzy_threshold)
    THEN [dup |-> TRUE, reason |-> "fuzzy_title"]
    ELSE [dup |-> FALSE, reason |-> "none"]

\* is_duplicate once title_norm = normalize_text(entry_title) is computed
is_duplicate_of(posted_data, entry_link, title_norm, fuzzy_threshold) ==
    IF entry_link # NoLink /\ ExactLinkMatch(posted_data.items, entry_link)
    THEN [dup |-> TRUE, reason |-> "exact_link"]
    ELSE IF title_norm # <<>>
            /\ FuzzyTitleMatch(posted_data.items, title_norm, fuzzy_threshold)
    THEN [dup |-> TRUE, reason |-> "fuzzy_title"]
    ELSE [dup |-> FALSE, reason |-> "none"]

is_duplicate(posted_data, entry_link, entry_title, fuzzy_threshold) ==
    is_duplicate_of(posted_data, entry_link, Normalized(entry_title), fuzzy_threshold)

\* ------------------------------------------------------------------------
\* Delivery (rss_to_telegram.py)
\* ------------------------------------------------------------------------
\* Result of one HTTP request: status 200, another status, or an exception.
HttpResults == {"ok", "fail", "exc"}

\* Result of a local step (image download + temp file, os.remove)
StepResults == {"ok", "exc"}

Call(name, res) == [call |-> name, res |-> res]

\* The outcomes the environment gives to one candidate's delivery:
\*   u1 first sendPhoto by URL (process)      u2 sendPhoto by URL (fallback)
\*   dl image download / temp-file creation   u3 sendPhoto by file upload
\*   rm os.remove of the temp file            m  sendMessage
AllOutcomes ==
    [u1 : HttpResults, u2 : HttpResults, dl : StepResults,
     u3 : HttpResults, rm : StepResults, m : HttpResults]

\* try_send_photo_with_fallback: returns ret and the calls made
try_send_photo_with_fallback(o) ==
    LET url == <<Call("send_photo_url", o.u2)>>
    IN  IF o.u2 = "ok" THEN [ret |-> TRUE, calls |-> url]
        ELSE IF o.dl = "exc"
        THEN [ret |-> FALSE, calls |-> url \o <<Call("download", "exc")>>]
        ELSE LET up == url \o <<Call("download", "ok"),
                                Call("send_photo_file", o.u3)>>
             IN  IF o.u3 = "ok"
                 THEN IF o.rm = "ok"
                      THEN [ret |-> TRUE, calls |-> up \o <<Call("remove", "ok")>>]
                      \* os.remove raised inside the inner try: caught, the
                      \* removal is tried again, and False is returned
                      ELSE [ret |-> FALSE,
                            calls |-> up \o <<Call("remove", "exc"),
                                              Call("remove", "exc")>>]
                 ELSE [ret |-> FALSE, calls |-> up \o <<Call("remove", o.rm)>>]

\* Deliver with the status of sendMessage ignored (only an exception counts as
\* a failure)
DeliverIgnoringStatus(top_image, o) ==
    IF top_image
    THEN LET first == <<Call("send_photo_url", o.u1)>>
         IN  IF o.u1 = "exc" THEN [posted_ok |-> FALSE, calls |-> first]
             ELSE IF o.u1 = "ok" THEN [posted_ok |-> TRUE, calls |-> first]
             ELSE LET fb == try_send_photo_with_fallback(o)
                  IN  IF fb.ret
                      THEN [posted_ok |-> TRUE, calls |-> first \o fb.calls]
                      ELSE [posted_ok |-> o.m # "exc",
                            calls |-> first \o fb.calls
                                      \o <<Call("send_message", o.m)>>]
    ELSE [posted_ok |-> o.m # "exc", calls |-> <<Call("send_message", o.m)>>]

\* The delivery block of process: posted_ok and the calls made
Deliver(top_image, o) ==
    IF top_image
    THEN LET first == <<Call("send_photo_url", o.u1)>>
         IN  IF o.u1 = "exc" THEN [posted_ok |-> FALSE, calls |-> first]
             ELSE IF o.u1 = "ok" THEN [posted_ok |-> TRUE, calls |-> first]
             ELSE LET fb == try_send_photo_with_fallback(o)
                  IN  IF fb.ret
                      THEN [posted_ok |-> TRUE, calls |-> first \o fb.calls]
                      ELSE [posted_ok |-> o.m = "ok",
                            calls |-> first \o fb.calls
                                      \o <<Call("send_message", o.m)>>]
    ELSE [posted_ok |-> o.m = "ok", calls |-> <<Call("send_message", o.m)>>]

SendCalls == {"send_photo_url", "send_photo_file", "send_message"}

Range(seq) == {seq[i] : i \in 1..Len(seq)}

\* name is among the calls made
Called(calls, name) == \E i \in 1..Len(calls) : calls[i].call = name

\* The positions of the delivery requests in a call sequence
Sends(calls) == {i \in 1..Len(calls) : calls[i].call \in SendCalls}

\* Number of delivery requests in a call sequence that returned 200
Successes(calls) ==
    Cardinality({i \in 1..Len(calls) :
                    calls[i].call \in SendCalls /\ calls[i].res = "ok"})

\* The outcomes that select distinct paths through Deliver (an outcome
\* no call consumes is fixed to "ok").
Relevant(top_image, o) ==
    LET usesFb   == top_image /\ o.u1 = "fail"
        usesDl   == usesFb /\ o.u2 # "ok"
        usesUp   == usesDl /\ o.dl = "ok"
        usesRm   == usesUp
        usesMsg  == \/ ~top_image
                    \/ usesFb /\ ~try_send_photo_with_fallback(o).ret
    IN  /\ (top_image \/ o.u1 = "ok")
        /\ (usesFb  \/ o.u2 = "ok")
        /\ (usesDl  \/ o.dl = "ok")
        /\ (usesUp  \/ o.u3 = "ok")
        /\ (usesRm  \/ o.rm = "ok")
        /\ (usesMsg \/ o.m = "ok")

\* Every path of a delivery: with an image, and text only
ImageOutcomes == {o \in AllOutcomes : Relevant(TRUE, o)}

TextOutcomes == {o \in AllOutcomes : Relevant(FALSE, o)}

\* The outcomes the runs of Spec draw from: every request returns 200; every
\* request returns another status and the download fails; every request
\* raises; the file upload returns 200 but os.remove raises, and sendMessage
\* then fails, or then returns 200.
AllAre(x, y) == [u1 |-> x, u2 |-> x, dl |-> y, u3 |-> x, rm |-> y, m |-> x]

UploadThenRemoveFails(msg) ==
    [u1 |-> "fail", u2 |-> "fail", dl |-> "ok", u3 |-> "ok", rm |-> "exc", m |-> msg]

RunOutcomes ==
    { AllAre("ok", "ok"), AllAre("fail", "exc"), AllAre("exc", "exc"),
      UploadThenRemoveFails("fail"), UploadThenRemoveFails("ok") }

\* Enrichment of a candidate with a link (newspaper Article download/parse,
\* summarize): it raises, or yields a top image, or yields none.
FetchResults == {"exc", "image", "noimage"}

\* ------------------------------------------------------------------------
\* State
\* ------------------------------------------------------------------------
VARIABLES
    file,             \* contents of the state file (posted.json)
    file0,            \* history: contents of the state file when the run started
    fuzzy_threshold,  \* --fuzzy-threshold / FUZZY_THRESHOLD
    pc,               \* position of the run: idle, sweep, save, dump,
                      \* done (process returned), raised (uncaught exception),
                      \* killed (terminated from outside)
    run,              \* number of runs started
    posted,           \* the in-memory store of the run
    posted0,          \* history: the store as load_posted returned it
    new_count,        \* process's new_count
    feed_i,           \* feeds taken from the feed list in this run
    in_feed,          \* TRUE while the entries of a parsed feed are iterated
    entry_n,          \* history: entries taken from feeds so far, over all runs
    last,             \* history: what the loop body just did for an entry
                      \* (NoEntry after any other step)
    delivered,        \* history: entries for which some request returned 200
    save_calls,       \* history: calls of save_posted in this run
    raised_in,        \* history: the call whose exception ended the run
    log               \* history: one line per entry handled, over all runs
                      \* (kept by the specifications that follow runs)

vars == <<file, file0, fuzzy_threshold, pc, run, posted, posted0, new_count,
          feed_i, in_feed, entry_n, last, delivered, save_calls, raised_in, log>>

NoEntry ==
    [run |-> 0, n |-> 0, link |-> NoLink, title |-> T_empty, skipped |-> TRUE,
     dup |-> FALSE, reason |-> "none", top_image |-> FALSE,
     calls |-> <<>>, posted_ok |-> FALSE]

Init ==
    /\ file \in InitFiles
    /\ file0 = file
    /\ fuzzy_threshold \in Thresholds
    /\ pc = "idle"
    /\ run = 0
    /\ posted = PostedNone
    /\ posted0 = PostedNone
    /\ new_count = 0
    /\ feed_i = 0
    /\ in_feed = FALSE
    /\ entry_n = 0
    /\ last = NoEntry
    /\ delivered = {}
    /\ save_calls = 0
    /\ raised_in = "none"
    /\ log = <<>>

Running == pc \in {"sweep", "save", "dump"}

Ended == pc \in {"idle", "done", "raised", "killed"}

\* ------------------------------------------------------------------------
\* process (rss_to_telegram.py)
\* ------------------------------------------------------------------------
\* What read_feeds_csv does: it returns the feeds ("ok"; none when the source
\* cannot be opened or fetched, which is caught), it raises ("exc": `for row in
\* reader` is outside the try, so a local CSV that is not UTF-8 ends process),
\* or the process is terminated while it waits ("killed").
FeedsResults == {"ok", "exc", "killed"}

\* process, up to the feed loop: read_feeds_csv, load_posted, new_count = 0
StartRun ==
    /\ Ended
    /\ run < MaxRuns
    /\ \E feeds \in FeedsResults :
          IF feeds = "ok"
          THEN /\ \E read_error \in BOOLEAN :
                     posted' = load_posted(file, read_error)
               /\ pc' = "sweep"
               /\ raised_in' = "none"
          ELSE /\ posted' = PostedNone
               /\ pc' = IF feeds = "exc" THEN "raised" ELSE "killed"
               /\ raised_in' = IF feeds = "exc" THEN "read_feeds_csv" ELSE "none"
    /\ posted0' = posted'
    /\ file0' = file
    /\ run' = run + 1
    /\ new_count' = 0
    /\ feed_i' = 0
    /\ in_feed' = FALSE
    /\ last' = NoEntry
    /\ save_calls' = 0
    /\ UNCHANGED <<file, fuzzy_threshold, entry_n, delivered, log>>

\* process when read_feeds_csv returns
StartRunDone == StartRun /\ pc' = "sweep"

\* ParseFeed without the try/except around feedparser.parse: the exception
\* ends the run
ParseFeedAborting ==
    /\ pc = "sweep"
    /\ feed_i < MaxFeeds
    /\ feed_i' = feed_i + 1
    /\ \E parsed \in BOOLEAN :
          /\ in_feed' = parsed
          /\ pc' = IF parsed THEN pc ELSE "raised"
          /\ raised_in' = IF parsed THEN raised_in ELSE "feedparser"
    /\ last' = NoEntry
    /\ UNCHANGED <<file, file0, fuzzy_threshold, run, posted, posted0, new_count,
                   entry_n, delivered, save_calls, log>>

\* `for f in feeds`: feedparser.parse(url) returns, or raises and the loop
\* continues with the next feed.
ParseFeed ==
    /\ pc = "sweep"
    /\ feed_i < MaxFeeds
    /\ feed_i' = feed_i + 1
    /\ \E parsed \in BOOLEAN : in_feed' = parsed
    /\ last' = NoEntry
    /\ UNCHANGED <<file, file0, fuzzy_threshold, pc, run, posted, posted0, new_count,
                   entry_n, delivered, save_calls, raised_in, log>>

\* CallOrder with enrichment moved before the classification
CallOrderFetchFirst(enrich, sends) ==
    enrich \o <<Call("is_duplicate", "new")>> \o sends

\* The order of the loop body's calls for a candidate that is not a duplicate:
\* is_duplicate (line 677), enrichment (685-702), delivery (718-731)
CallOrder(enrich, sends) == <<Call("is_duplicate", "new")>> \o enrich \o sends

\* The body of `for e in d.get("entries", [])` for the entry e, given what
\* enrichment (fetch) and delivery (o) do.  Returns the new store, whether a
\* record was appended, the exception that escaped (if any) and the calls made.
LoopBody(posted_data, e, fetch, o, threshold, now) ==
    LET base == [link |-> e.link, title |-> e.title, skipped |-> FALSE,
                 dup |-> FALSE, reason |-> "none", top_image |-> FALSE,
                 calls |-> <<>>, posted_ok |-> FALSE,
                 posted |-> posted_data, appended |-> FALSE, raised |-> "none"]
    IN
    IF e.link = NoLink /\ e.title = T_empty
    THEN [base EXCEPT !.skipped = TRUE]
    ELSE IF is_duplicate_raises(posted_data, e.link, e.title)
    THEN [base EXCEPT !.calls = <<Call("is_duplicate", "exc")>>,
                      !.raised = "is_duplicate"]
    ELSE
    LET d == is_duplicate(posted_data, e.link, e.title, threshold)
    IN
    IF d.dup
    THEN [base EXCEPT !.dup = TRUE, !.reason = d.reason,
                      !.calls = <<Call("is_duplicate", "dup")>>]
    ELSE
    LET top_image == e.link # NoLink /\ fetch = "image"
        enrich == IF e.link # NoLink
                  THEN <<Call("article_fetch", IF fetch = "exc" THEN "exc" ELSE "ok")>>
                  ELSE <<>>
        sent == Deliver(top_image, o)
        pre  == CallOrder(enrich, sent.calls)
        b2   == [base EXCEPT !.top_image = top_image, !.posted_ok = sent.posted_ok]
    IN
    IF ~sent.posted_ok
    THEN [b2 EXCEPT !.calls = pre]
    ELSE IF record_posted_raises(posted_data)
    THEN [b2 EXCEPT !.calls = pre \o <<Call("record_posted", "exc")>>,
                    !.raised = "record_posted"]
    ELSE [b2 EXCEPT !.calls = pre \o <<Call("record_posted", "ok")>>,
                    !.appended = TRUE,
                    !.posted = record_posted(posted_data, e.link, e.title, now)]

EntryInfo(r, n) ==
    [run |-> run, n |-> n, link |-> r.link, title |-> r.title,
     skipped |-> r.skipped, dup |-> r.dup, reason |-> r.reason,
     top_image |-> r.top_image, calls |-> r.calls, posted_ok |-> r.posted_ok]

\* The state after the loop body for e returned r (or raised r.raised)
EntryDone(r, e) ==
    /\ posted' = r.posted
    /\ new_count' = IF r.appended THEN new_count + 1 ELSE new_count
    /\ entry_n' = entry_n + 1
    /\ last' = EntryInfo(r, entry_n + 1)
    /\ delivered' = IF Successes(r.calls) > 0
                    THEN delivered \cup {[link |-> e.link, title |-> e.title]}
                    ELSE delivered
    /\ pc' = IF r.raised # "none" THEN "raised" ELSE pc
    /\ raised_in' = r.raised
    /\ UNCHANGED <<file, file0, fuzzy_threshold, run, posted0, feed_i, in_feed,
                   save_calls>>

EntryStep(e, fetch, o) ==
    EntryDone(LoopBody(posted, e, fetch, o, fuzzy_threshold, run), e)

\* TRUE when the loop body for e ends before enrichment (skipped, duplicate,
\* or is_duplicate raised), so that no outcome is consumed
EndsEarly(posted_data, e, threshold) ==
    \/ e.link = NoLink /\ e.title = T_empty
    \/ is_duplicate_raises(posted_data, e.link, e.title)
    \/ is_duplicate(posted_data, e.link, e.title, threshold).dup

\* What the environment can do during the loop body for e: nothing that
\* matters when the body ends early; otherwise the article fetch (made for an
\* entry with a link) and the delivery outcomes of Outs
EntryChoices(early, e, Outs) ==
    IF early THEN {<<"noimage", AllAre("ok", "ok")>>}
    ELSE IF e.link # NoLink THEN FetchResults \X Outs
    ELSE {"noimage"} \X Outs

\* One iteration of the entry loop, for an entry of Es, the environment's
\* outcomes drawn from Outs
EntryOf(Es, Outs) ==
    \E e \in Es :
        \E c \in EntryChoices(EndsEarly(posted, e, fuzzy_threshold), e, Outs) :
            EntryStep(e, c[1], c[2])

EntryFrom(Outs) == EntryOf(Entries, Outs)

Entry ==
    /\ pc = "sweep"
    /\ in_feed
    /\ entry_n < MaxEntries
    /\ EntryOf(RunEntries, RunOutcomes)
    /\ UNCHANGED log

\* What is known of a loop body that was terminated after the calls made
KilledInfo(r, made, ok, n) ==
    [EntryInfo(r, n) EXCEPT
        !.calls = made,
        !.top_image = r.top_image /\ Called(made, "article_fetch"),
        !.posted_ok = ok]

\* The last call of the loop body after which it can be terminated from
\* outside: any call but the last one, whose return is the body's own end; and
\* also record_posted when it returned, because the counter is incremented by
\* the statement that follows it (lines 734-735; 281-282 in the automation)
KilledCuts(r) == IF r.appended THEN Len(r.calls) ELSE Len(r.calls) - 1

\* The loop body for e is terminated from outside after the first k of its
\* calls (while it waits in a request, in the logging of a response that has
\* arrived, or in the sleep that follows a send): what was sent is sent and
\* the run is over.  Before record_posted returned nothing is recorded; after
\* it returned the store has the record and the counter has not counted it.
\* posted_ok (line 717) is False until the delivery block has assigned it
\* (lines 723-729), which the body does only after its last call before
\* record_posted has returned: at that cut it holds either value, at every
\* earlier cut it is False, and it is True once record_posted was called.
\* has_flag is FALSE for a body that keeps no such variable.
KilledStep(r, e, has_flag) ==
    \E k \in 1..KilledCuts(r) :
        \E ok \in (IF k = Len(r.calls) THEN {r.posted_ok}
                   ELSE IF has_flag /\ r.posted_ok /\ k = Len(r.calls) - 1
                   THEN BOOLEAN ELSE {FALSE}) :
            /\ entry_n' = entry_n + 1
            /\ last' = KilledInfo(r, SubSeq(r.calls, 1, k), ok, entry_n + 1)
            /\ delivered' = IF Successes(SubSeq(r.calls, 1, k)) > 0
                            THEN delivered \cup {[link |-> e.link, title |-> e.title]}
                            ELSE delivered
            /\ posted' = IF k = Len(r.calls) THEN r.posted ELSE posted
            /\ pc' = "killed"
            /\ UNCHANGED <<file, file0, fuzzy_threshold, run, posted0,
                           new_count, feed_i, in_feed, save_calls, raised_in, log>>

EntryKilled ==
    /\ pc = "sweep"
    /\ in_feed
    /\ entry_n < MaxEntries
    /\ \E e \in RunEntries : \E fetch \in FetchResults : \E o \in RunOutcomes :
          KilledStep(LoopBody(posted, e, fetch, o, fuzzy_threshold, run), e, TRUE)

\* SaveDue without the test of new_count
SaveAlways(count) == TRUE

\* `if new_count:` after the loops
SaveDue(count) == count # 0

\* The feed loop is over: save_posted is called, or process returns.
EndSweep ==
    /\ pc = "sweep"
    /\ IF SaveDue(new_count)
       THEN /\ pc' = "save"
            /\ save_calls' = save_calls + 1
       ELSE /\ pc' = "done"
            /\ UNCHANGED save_calls
    /\ in_feed' = FALSE
    /\ last' = NoEntry
    /\ UNCHANGED <<file, file0, fuzzy_threshold, run, posted, posted0, new_count, feed_i,
                   entry_n, delivered, raised_in, log>>

\* save_posted: open(path, "w") truncates the file, or raises.
SaveOpen ==
    /\ pc = "save"
    /\ \E opened \in BOOLEAN :
          IF opened
          THEN /\ file' = FileEmpty
               /\ pc' = "dump"
               /\ UNCHANGED raised_in
          ELSE /\ pc' = "raised"
               /\ raised_in' = "save_posted"
               /\ UNCHANGED file
    /\ UNCHANGED <<file0, fuzzy_threshold, run, posted, posted0, new_count, feed_i,
                   in_feed, entry_n, last, delivered, save_calls, log>>

\* What a cut-off json.dump leaves in the file: the first k records in full
\* (k = all of them when only the closing brackets are missing)
PartialDumps(doc) == {FilePartial(SubSeq(doc.items, 1, k)) : k \in 0..Len(doc.items)}

\* save_posted: json.dump writes the whole document and the file is closed,
\* and process returns after its last logging call (line 743) or is
\* terminated in it; or a write raises, before anything reached the file
\* (which stays as open() left it) or after a part of the document did; or
\* the process is terminated after a part of the document reached the file.
\* (A termination before the first write is Abort.)
SaveDump ==
    /\ pc = "dump"
    /\ \/ /\ file' = Document(posted)
          /\ pc' \in {"done", "killed"}
          /\ UNCHANGED raised_in
       \/ /\ file' \in {file} \cup PartialDumps(Document(posted))
          /\ pc' = "raised"
          /\ raised_in' = "save_posted"
       \/ /\ file' \in PartialDumps(Document(posted))
          /\ pc' = "killed"
          /\ UNCHANGED raised_in
    /\ UNCHANGED <<file0, fuzzy_threshold, run, posted, posted0, new_count, feed_i,
                   in_feed, entry_n, last, delivered, save_calls, log>>

\* The process is terminated from outside (signal, runner cancellation,
\* KeyboardInterrupt) wherever it is.
Abort ==
    /\ Running
    /\ pc' = "killed"
    /\ last' = NoEntry
    /\ UNCHANGED <<file, file0, fuzzy_threshold, run, posted, posted0, new_count, feed_i,
                   in_feed, entry_n, delivered, save_calls, raised_in, log>>

Next ==
    \/ StartRun
    \/ ParseFeed
    \/ Entry
    \/ EntryKilled
    \/ EndSweep
    \/ SaveOpen
    \/ SaveDump
    \/ Abort

Spec == Init /\ [][Next]_vars

\* ------------------------------------------------------------------------
\* SpecBody: one execution of the loop body, from every small store, under
\* every threshold of BodyThresholds and every outcome of the environment
\* ------------------------------------------------------------------------
\* records of the stores the state file starts with
MaxStored == 1

StoredRecs == {Rec(e.link, e.title, 0) : e \in Entries \ {[link |-> NoLink, title |-> T_empty]}}

Stores == UNION {[1..k -> StoredRecs] : k \in 0..MaxStored}

BodyFiles == {FileMissing, FileEmpty, FileNonDict} \cup {StoreFile(st) : st \in Stores}

BodyThresholds == {0, 60, DEFAULT_FUZZY_THRESHOLD, 100, 101}

InitBody ==
    /\ file \in BodyFiles
    /\ file0 = file
    /\ fuzzy_threshold \in BodyThresholds
    /\ pc = "idle"
    /\ run = 0
    /\ posted = PostedNone
    /\ posted0 = PostedNone
    /\ new_count = 0
    /\ feed_i = 0
    /\ in_feed = FALSE
    /\ entry_n = 0
    /\ last = NoEntry
    /\ delivered = {}
    /\ save_calls = 0
    /\ raised_in = "none"
    /\ log = <<>>

\* The loop body for the first entry of the run
EntryFirst ==
    /\ pc = "sweep"
    /\ in_feed
    /\ entry_n = 0
    /\ EntryFrom(ImageOutcomes \cup TextOutcomes)
    /\ UNCHANGED log

NextBody ==
    \/ StartRunDone
    \/ ParseFeed
    \/ EntryFirst

SpecBody == InitBody /\ [][NextBody]_vars

\* ------------------------------------------------------------------------
\* The automation variant (rss_to_telegram_automation.py)
\* ------------------------------------------------------------------------
\* load_posted has no try/except: a read or decode error escapes.
auto_load_posted_raises(f, read_error) ==
    f.kind # "missing" /\ (read_error \/ f.kind \in {"empty", "partial"})

auto_load_posted(f, read_error) ==
    IF f.kind = "missing" THEN PostedDict(<<>>)
    ELSE IF f.kind = "nondict" THEN PostedNonDict
    ELSE IF f.kind = "noitems" THEN PostedNoItems
    ELSE PostedDict([i \in 1..Len(f.items) |-> json_load_item(f.items[i])])

\* posted_data['items'] raises on a list (TypeError) and on a dict without
\* the key (KeyError), whatever the entry
auto_is_duplicate_raises(posted_data) == posted_data.kind # "dict"

\* One turn of the fuzzy loop: `if not t or not title_norm: continue`, then
\* score = fuzz.token_set_ratio(title_norm, t)
TitleScore(title_norm, t) ==
    IF t = <<>> \/ title_norm = <<>>
    THEN [compared |-> FALSE, score |-> ScoreZero]
    ELSE [compared |-> TRUE, score |-> Ratio(title_norm, t)]

\* The fuzzy loop over the scores of the stored titles: the first that
\* reaches the threshold returns.  The reason is the text
\* f'fuzzy_title({score})': reason holds its fixed part and score the number
\* between the parentheses (100 * num / den).
auto_fuzzy_pass(scores, threshold) ==
    LET hits == {i \in DOMAIN scores :
                    scores[i].compared /\ ScoreAtLeast(scores[i].score, threshold)}
    IN  IF hits = {} THEN [dup |-> FALSE, reason |-> "none"]
        ELSE [dup |-> TRUE, reason |-> "fuzzy_title",
              score |-> scores[CHOOSE i \in hits : \A j \in hits : i <= j].score]

auto_title_scores(items, title_norm) ==
    [i \in 1..Len(items) |-> TitleScore(title_norm, Normalized(items[i].title))]

\* The exact-link loop is not guarded by `if entry_link`.
auto_is_duplicate(posted_data, entry_link, entry_title, threshold) ==
    IF ExactLinkMatch(posted_data.items, entry_link)
    THEN [dup |-> TRUE, reason |-> "exact_link"]
    ELSE auto_fuzzy_pass(auto_title_scores(posted_data.items, Normalized(entry_title)),
                         threshold)

\* The `try:` block that sends (lines 270-279): o.u1 is the result of
\* telegram_send_photo, o.m of telegram_send_message.  The status of
\* sendMessage is never looked at; only an exception leaves the block early.
AutoDeliver(top_image, o) ==
    IF top_image
    THEN LET photo == <<Call("send_photo_url", o.u1)>>
         IN  IF o.u1 = "exc" THEN [raised |-> TRUE, calls |-> photo]
             ELSE IF o.u1 = "ok" THEN [raised |-> FALSE, calls |-> photo]
             ELSE [raised |-> o.m = "exc",
                   calls |-> photo \o <<Call("send_message", o.m)>>]
    ELSE [raised |-> o.m = "exc", calls |-> <<Call("send_message", o.m)>>]

\* The body of `for e in entries` (lines 228-286)
AutoLoopBody(posted_data, e, fetch, o, threshold, now) ==
    LET base == [link |-> e.link, title |-> e.title, skipped |-> FALSE,
                 dup |-> FALSE, reason |-> "none", top_image |-> FALSE,
                 calls |-> <<>>, posted_ok |-> FALSE,
                 posted |-> posted_data, appended |-> FALSE, raised |-> "none"]
    IN
    IF auto_is_duplicate_raises(posted_data)
    THEN [base EXCEPT !.calls = <<Call("is_duplicate", "exc")>>,
                      !.raised = "is_duplicate"]
    ELSE
    LET d == auto_is_duplicate(posted_data, e.link, e.title, threshold)
    IN
    IF d.dup
    THEN [base EXCEPT !.dup = TRUE, !.reason = d.reason,
                      !.calls = <<Call("is_duplicate", "dup")>>]
    ELSE
    LET top_image == fetch = "image"
        enrich == <<Call("article_fetch", IF fetch = "exc" THEN "exc" ELSE "ok")>>
        sent == AutoDeliver(top_image, o)
        pre  == <<Call("is_duplicate", "new")>> \o enrich \o sent.calls
        b2   == [base EXCEPT !.top_image = top_image]
    IN
    IF sent.raised
    THEN [b2 EXCEPT !.calls = pre]
    ELSE [b2 EXCEPT !.calls = pre \o <<Call("record_posted", "ok")>>,
                    !.posted_ok = TRUE,
                    !.appended = TRUE,
                    !.posted = record_posted(posted_data, e.link, e.title, now)]

\* process, up to the feed loop.  read_feeds_csv (lines 166-181) has no
\* try/except: a source that cannot be opened, fetched or decoded ends process.
AutoStartRun ==
    /\ Ended
    /\ run < MaxRuns
    /\ \E feeds \in FeedsResults : \E read_error \in BOOLEAN :
          IF feeds # "ok"
          THEN /\ posted' = PostedNone
               /\ pc' = IF feeds = "exc" THEN "raised" ELSE "killed"
               /\ raised_in' = IF feeds = "exc" THEN "read_feeds_csv" ELSE "none"
          ELSE IF auto_load_posted_raises(file, read_error)
          THEN /\ posted' = PostedNone
               /\ pc' = "raised"
               /\ raised_in' = "load_posted"
          ELSE /\ posted' = auto_load_posted(file, read_error)
               /\ pc' = "sweep"
               /\ raised_in' = "none"
    /\ posted0' = posted'
    /\ file0' = file
    /\ run' = run + 1
    /\ new_count' = 0
    /\ feed_i' = 0
    /\ in_feed' = FALSE
    /\ last' = NoEntry
    /\ save_calls' = 0
    /\ UNCHANGED <<file, fuzzy_threshold, entry_n, delivered, log>>

AutoEntryStep(e, fetch, o) ==
    EntryDone(AutoLoopBody(posted, e, fetch, o, fuzzy_threshold, run), e)

\* The body ends before enrichment: is_duplicate raised or said duplicate
AutoEndsEarly(posted_data, e, threshold) ==
    \/ auto_is_duplicate_raises(posted_data)
    \/ auto_is_duplicate(posted_data, e.link, e.title, threshold).dup

\* Every entry is enriched (fetch_article is called with or without a link)
AutoEntryChoices(early, Outs) ==
    IF early THEN {<<"noimage", AllAre("ok", "ok")>>} ELSE FetchResults \X Outs

\* One iteration of the entry loop
AutoEntry ==
    /\ pc = "sweep"
    /\ in_feed
    /\ entry_n < MaxEntries
    /\ \E e \in RunEntries :
          \E c \in AutoEntryChoices(AutoEndsEarly(posted, e, fuzzy_threshold),
                                    RunOutcomes) :
              AutoEntryStep(e, c[1], c[2])
    /\ UNCHANGED log

AutoEntryKilled ==
    /\ pc = "sweep"
    /\ in_feed
    /\ entry_n < MaxEntries
    /\ \E e \in RunEntries : \E fetch \in FetchResults : \E o \in RunOutcomes :
          KilledStep(AutoLoopBody(posted, e, fetch, o, fuzzy_threshold, run), e, FALSE)

\* `if new_posts:` and the save are those of EndSweep, SaveOpen and SaveDump.
NextAutomation ==
    \/ AutoStartRun
    \/ ParseFeed
    \/ AutoEntry
    \/ AutoEntryKilled
    \/ EndSweep
    \/ SaveOpen
    \/ SaveDump
    \/ Abort

SpecAutomation == Init /\ [][NextAutomation]_vars

\* ------------------------------------------------------------------------
\* SpecRetry: runs that follow one another, with a line of the log per entry
\* handled.  The state file can be written (open and json.dump do not raise)
\* and the process is not terminated from outside; a run that reached the end
\* of its loops goes on to the save and returns.
\* ------------------------------------------------------------------------
\* What the loop body decided for the entry: skipped (line 675), error
\* (is_duplicate raised), duplicate, or new
Decision(l) ==
    IF l.skipped THEN "skipped"
    ELSE IF l.calls # <<>> /\ l.calls[1] = Call("is_duplicate", "exc") THEN "error"
    ELSE IF l.dup THEN "duplicate"
    ELSE "new"

\* The line of the log for the entry described by l, handled in a run whose
\* load_posted returned loaded
LogLine(l, loaded) ==
    [run |-> l.run, link |-> l.link, title |-> l.title,
     decision |-> Decision(l),
     sent |-> Sends(l.calls) # {},
     delivered |-> Successes(l.calls) > 0,
     recorded |-> Called(l.calls, "record_posted") /\ l.calls[Len(l.calls)].res = "ok",
     loaded |-> loaded]

\* Every request of a delivery returns 200, or another status, or raises
RetryOutcomes == { AllAre("ok", "ok"), AllAre("fail", "exc"), AllAre("exc", "exc") }

\* One iteration of the entry loop, logged
LoggedEntry ==
    /\ pc = "sweep"
    /\ in_feed
    /\ entry_n < MaxEntries
    /\ EntryOf(RetryEntries, RetryOutcomes)
    /\ log' = Append(log, LogLine(last', posted0))

\* save_posted when open(path, "w") succeeds
SaveOpenDone == SaveOpen /\ pc' = "dump"

\* save_posted when json.dump completes
SaveDumpDone == SaveDump /\ pc' = "done"

NextRetry ==
    \/ StartRunDone
    \/ ParseFeed
    \/ LoggedEntry
    \/ EndSweep
    \/ SaveOpenDone
    \/ SaveDumpDone

\* process is sequential code: once the loops are over it reaches the save
\* (or returns), and a save that does not raise completes.
SpecRetry ==
    /\ Init
    /\ [][NextRetry]_vars
    /\ WF_vars(EndSweep)
    /\ WF_vars(SaveOpenDone)
    /\ WF_vars(SaveDumpDone)

\* ------------------------------------------------------------------------
\* Properties
\* ------------------------------------------------------------------------
\* The step handled a feed entry (Entry, EntryFirst or AutoEntry).
EntryHandled == entry_n' = entry_n + 1

\* The classifier treats d and e as the same item: is_duplicate says so for e
\* against a store holding only d.
SameItem(d, e, threshold) ==
    is_duplicate(PostedDict(<<Rec(d.link, d.title, 0)>>), e.link, e.title, threshold).dup

\* Records appended to the in-memory store since it was loaded
Appended ==
    IF posted.kind = "dict" /\ posted0.kind = "dict"
    THEN Len(posted.items) - Len(posted0.items)
    ELSE 0

\* C1: no entry is delivered successfully (some request returned 200) when an
\* entry the classifier treats as the same item was delivered successfully
\* before, in this run or in an earlier one.
C1_NoRepublication ==
    [][ (EntryHandled /\ Successes(last'.calls) > 0)
            => ~ \E d \in delivered :
                    SameItem(d, [link |-> last'.link, title |-> last'.title],
                             fuzzy_threshold) ]_vars

\* C2: record_posted is called for a candidate only if one of its delivery
\* requests returned 200; when every request failed (another status or an
\* exception) the store is what it was before the candidate.
C2_RecordOnlyAfterSuccess ==
    [][ EntryHandled
            => /\ Called(last'.calls, "record_posted") => Successes(last'.calls) > 0
               /\ Successes(last'.calls) = 0 => posted' = posted ]_vars

\* C2 witness: a non-duplicate candidate with an image whose requests all
\* failed, by status and by exception, and the store is as loaded.
C2_Witness ==
    /\ last.n > 0
    /\ ~last.dup /\ ~last.skipped /\ last.top_image
    /\ Successes(last.calls) = 0
    /\ \E i \in Sends(last.calls) : last.calls[i].res = "exc"
    /\ \E i \in Sends(last.calls) : last.calls[i].res = "fail"
    /\ Called(last.calls, "send_message")
    /\ posted = posted0
    /\ posted.kind = "dict"

\* C3 (automation variant): a candidate whose requests all returned a non-200
\* status is not appended to the store and not counted as a new post.
C3_FailedNotRecorded ==
    [][ (/\ EntryHandled
         /\ Sends(last'.calls) # {}
         /\ \A i \in Sends(last'.calls) : last'.calls[i].res = "fail")
            => posted' = posted /\ new_count' = new_count ]_vars

\* C4: whenever a delivery request for a candidate returned 200, exactly one
\* record with the candidate's link and title is appended to the in-memory
\* store in the same iteration, before the next entry is classified.
C4_AppendOnSuccess ==
    [][ (EntryHandled /\ Successes(last'.calls) > 0)
            => /\ posted.kind = "dict"
               /\ posted' = PostedDict(Append(posted.items,
                                              Rec(last'.link, last'.title, run))) ]_vars

\* C5: for every entry is_duplicate is evaluated once and before any article
\* fetch, delivery request or append; a duplicate entry causes none of them.
C5_ClassifyFirst ==
    [][ EntryHandled
            => LET c == last'.calls
               IN  /\ c # <<>> => c[1].call = "is_duplicate"
                   /\ \A i \in 2..Len(c) : c[i].call # "is_duplicate"
                   /\ last'.dup => c = <<Call("is_duplicate", "dup")>> /\ posted' = posted
                   /\ last'.skipped => c = <<>> /\ posted' = posted ]_vars

\* C5 witness: an entry was classified duplicate against a non-empty store.
C5_Witness ==
    /\ last.n > 0
    /\ last.dup
    /\ last.calls = <<Call("is_duplicate", "dup")>>
    /\ posted.kind = "dict" /\ posted.items # <<>>

\* C6: save_posted is called at most once per run, only after the sweep and
\* only with an append in the run; a run that returns has called it exactly
\* when it appended; without an append the state file is never written.
C6_SaveOncePerRun ==
    /\ save_calls <= 1
    /\ save_calls = 1 => pc # "sweep" /\ Appended > 0
    /\ pc = "done" => (save_calls = 1 <=> Appended > 0)
    /\ Appended = 0 => file = file0

\* C6 witness: a run returned after appending and writing the store.
C6_Witness ==
    /\ pc = "done"
    /\ save_calls = 1
    /\ Appended > 0
    /\ file = Document(posted)
    /\ file # file0

\* C7: when the state file is missing, unreadable or not a valid store
\* document, load_posted yields an empty store and no exception caused by the
\* loaded value ends the run.
C7_LoadNeverFatal ==
    (pc # "idle" /\ posted0 # PostedNone /\ file0.kind # "store")
        => /\ posted0 = PostedDict(<<>>)
           /\ raised_in \notin {"is_duplicate", "record_posted"}

\* C8: a failure to write the state file does not end the run with an
\* exception: process returns, and the in-memory store keeps its records.
C8_SaveFailureNotFatal ==
    raised_in = "save_posted" => pc = "done" /\ Appended > 0

\* C9: the state file always holds either the complete contents it had when
\* the run started or the complete new document, never an empty or partial one.
C9_AtomicReplace ==
    file \in {file0, Document(posted)}

\* C10: when a run terminates abnormally the state file holds exactly what it
\* held when the run started.
C10_AbnormalEndKeepsFile ==
    pc \in {"raised", "killed"} => file = file0

\* The lines of the log written in run r
Lines(r) == SelectSeq(log, LAMBDA x : x.run = r)

IsEntry(x, e) == x.link = e.link /\ x.title = e.title

\* e was handled in an earlier run, classified new, its delivery was
\* attempted and no request returned 200
FailedBefore(e) ==
    \E i \in 1..Len(log) :
        /\ log[i].run < run
        /\ IsEntry(log[i], e)
        /\ log[i].decision = "new"
        /\ log[i].sent
        /\ ~log[i].delivered

\* e, whose delivery failed in an earlier run, has just been delivered
RetrySucceeded(e) ==
    /\ last.n > 0
    /\ last.run = run
    /\ IsEntry(last, e)
    /\ Successes(last.calls) > 0
    /\ FailedBefore(e)

\* the state file is a complete store document holding a record of e
Persisted(e) ==
    /\ file.kind = "store"
    /\ LET stored == load_posted(file, FALSE).items
       IN  \E i \in 1..Len(stored) : IsEntry(stored[i], e)

\* C11: an entry whose delivery failed in an earlier run and that is handled
\* again while the store holds no record matching it is classified new and
\* its delivery is attempted again; and once such an entry has been delivered,
\* a record of it eventually is in the state file.
C11_RetryUntilPersisted ==
    /\ [][ (/\ EntryHandled
            /\ FailedBefore([link |-> last'.link, title |-> last'.title])
            /\ posted.kind = "dict"
            /\ ~ \E i \in 1..Len(posted.items) :
                    SameItem(posted.items[i],
                             [link |-> last'.link, title |-> last'.title],
                             fuzzy_threshold))
                => Decision(last') = "new" /\ Sends(last'.calls) # {} ]_vars
    /\ \A e \in RetryEntries : RetrySucceeded(e) ~> Persisted(e)

\* The entry the step handled
Handled == [link |-> last'.link, title |-> last'.title]

\* C12: a candidate with a non-empty link equal to the link of a stored record
\* is classified duplicate with reason exact_link, whatever its title and the
\* threshold, also when a stored title reaches the threshold.
C12_ExactLinkPrecedence ==
    [][ (/\ EntryHandled
         /\ posted.kind = "dict"
         /\ last'.link # NoLink
         /\ \E i \in 1..Len(posted.items) : posted.items[i].link = last'.link)
            => last'.dup /\ last'.reason = "exact_link" ]_vars

\* C12 witness: a candidate classified exact_link against a record with its
\* link whose title also reaches the threshold.
C12_Witness ==
    /\ last.n > 0
    /\ last.dup /\ last.reason = "exact_link"
    /\ \E i \in 1..Len(posted.items) :
          /\ posted.items[i].link = last.link
          /\ ScoreAtLeast(token_set_ratio(normalize_text(last.title),
                                          normalize_text(posted.items[i].title)),
                          fuzzy_threshold)

\* The words of a title, case-folded
Words(t) == TokenSet(Lower(t))

\* A stored record has the candidate's set of words, and none has its link
SameWordsStored(items, e) ==
    /\ ~ (e.link # NoLink /\ \E i \in 1..Len(items) : items[i].link = e.link)
    /\ \E i \in 1..Len(items) : Words(items[i].title) = Words(e.title)

\* C13 as stated: a classified candidate whose link is empty or matches no
\* stored link and whose title has the set of words of a stored title is
\* classified duplicate with reason fuzzy_title at every threshold up to 100.
C13_SameWordsDuplicate ==
    [][ (/\ EntryHandled
         /\ ~last'.skipped
         /\ posted.kind = "dict"
         /\ fuzzy_threshold <= 100
         /\ SameWordsStored(posted.items, Handled))
            => last'.dup /\ last'.reason = "fuzzy_title" ]_vars

\* C13 amended: the same for a candidate whose title has at least one word.
C13_SameWordsDuplicateNonBlank ==
    [][ (/\ EntryHandled
         /\ ~last'.skipped
         /\ posted.kind = "dict"
         /\ fuzzy_threshold <= 100
         /\ Words(last'.title) # {}
         /\ SameWordsStored(posted.items, Handled))
            => last'.dup /\ last'.reason = "fuzzy_title" ]_vars

\* C13 witness: "b A b" without a link classified fuzzy_title against a
\* stored "a b" at threshold 100.
C13_Witness ==
    /\ last.n > 0
    /\ last.link = NoLink /\ last.title = T_bAb
    /\ last.dup /\ last.reason = "fuzzy_title"
    /\ fuzzy_threshold = 100
    /\ \E i \in 1..Len(posted.items) : posted.items[i].title = T_ab

\* C14: for the store of every run and every threshold, is_duplicate with an
\* empty link and an empty or whitespace-only title does not raise, returns
\* non-duplicate with no reason and computes no score.
C14_BlankNeverDuplicate ==
    posted.kind # "none"
        => \A t \in {T_ws, T_empty} :
              /\ ~is_duplicate_raises(posted, NoLink, t)
              /\ is_duplicate(posted, NoLink, t, fuzzy_threshold)
                    = [dup |-> FALSE, reason |-> "none"]
              /\ token_set_ratio_calls(posted, NoLink, t, fuzzy_threshold) = 0

\* C14 witness: a whitespace-only title without a link was classified new at
\* threshold 0 against a store holding a title with words.
C14_Witness ==
    /\ last.n > 0
    /\ last.link = NoLink /\ last.title = T_ws
    /\ ~last.dup /\ ~last.skipped
    /\ last.calls # <<>> /\ last.calls[1] = Call("is_duplicate", "new")
    /\ fuzzy_threshold = 0
    /\ posted0.kind = "dict"
    /\ \E i \in 1..Len(posted0.items) : Words(posted0.items[i].title) # {}

\* C15: an entry with neither link nor title is skipped without a call of
\* is_duplicate, and every entry classified new had something to compare: a
\* non-empty link for the exact-link pass or a title that is not blank for
\* the fuzzy-title pass.
C15_NoVacuousClassification ==
    [][ EntryHandled
            => /\ (last'.link = NoLink /\ last'.title = T_empty)
                    => last'.skipped /\ last'.calls = <<>>
               /\ Decision(last') = "new"
                    => last'.link # NoLink \/ normalize_text(last'.title) # <<>> ]_vars

\* No request made for the entries of these lines returned 200
NoneDelivered(ls) == \A i \in 1..Len(ls) : ~ls[i].delivered

\* The first i entries of the lines a and b are the same, in the same order
SameFeedUpTo(a, b, i) ==
    /\ i <= Len(a) /\ i <= Len(b)
    /\ \A j \in 1..i : a[j].link = b[j].link /\ a[j].title = b[j].title

\* C16: in a run whose deliveries all fail the store and the state file stay
\* what they were when the run started; and when the runs r and r + 1 both
\* are such runs, read (or fail to read) the state file alike and are served
\* the same entries in the same order, every entry gets the same decision
\* (skipped, error, duplicate, new) in both.
C16_FailingRunsRepeat ==
    /\ (run >= 1 /\ NoneDelivered(Lines(run)))
            => posted = posted0 /\ file = file0
    /\ \A r \in 1..(run - 1) :
          LET a == Lines(r)
              b == Lines(r + 1)
          IN  (/\ NoneDelivered(a) /\ NoneDelivered(b)
               /\ a # <<>> /\ b # <<>>
               /\ a[1].loaded = b[1].loaded)
                  => \A i \in 1..Len(b) :
                        SameFeedUpTo(a, b, i) => a[i].decision = b[i].decision

\* C16 witness: two runs returned, each served the same entry, classified
\* new and attempted in both, never delivered, against a store with a record.
C16_Witness ==
    /\ run = 2 /\ pc = "done"
    /\ Len(log) = 2
    /\ log[1].run = 1 /\ log[2].run = 2
    /\ SameFeedUpTo(Lines(1), Lines(2), 1)
    /\ log[1].decision = "new" /\ log[2].decision = "new"
    /\ log[1].sent /\ log[2].sent
    /\ NoneDelivered(log)
    /\ log[1].loaded = log[2].loaded
    /\ posted.kind = "dict" /\ posted.items # <<>>
    /\ file = file0

\* The records record_posted appended in run r, in the order of the calls
RecordsOf(r) ==
    LET ls == SelectSeq(Lines(r), LAMBDA x : x.recorded)
    IN  [i \in 1..Len(ls) |-> Rec(ls[i].link, ls[i].title, r)]

\* C17: when a run that started without a state file has returned from
\* save_posted, load_posted of the file yields exactly the records that
\* record_posted appended in the run, field by field and in the order of the
\* appends.
C17_RoundTrip ==
    (pc = "done" /\ save_calls = 1 /\ file0.kind = "missing")
        => /\ RecordsOf(run) # <<>>
           /\ load_posted(file, FALSE) = PostedDict(RecordsOf(run))

\* C17 witness: two records were appended to a store loaded from a missing
\* file, written and read back, one of them with a title that needs escaping.
C17_Witness ==
    /\ pc = "done" /\ save_calls = 1 /\ file0.kind = "missing"
    /\ Len(RecordsOf(run)) = 2
    /\ RecordsOf(run)[1].title = T_esc
    /\ RecordsOf(run)[2].title # T_esc
    /\ load_posted(file, FALSE).items = RecordsOf(run)

\* The call is a step of the enrichment or of the delivery that failed
Failed(c) ==
    /\ c.call \in {"article_fetch", "download", "remove"} \cup SendCalls
    /\ c.res \in {"fail", "exc"}

\* C18: a feed that cannot be parsed, and an entry whose article fetch or
\* delivery fails, leave the run in its loops at the place it was (the next
\* feed, the next entry of the feed), with no exception escaping; and an
\* entry whose article fetch raised still has its delivery attempted.
C18_FailureIsolation ==
    [][ /\ (pc = "sweep" /\ feed_i' = feed_i + 1)
            => pc' = "sweep" /\ raised_in' = "none" /\ posted' = posted
        /\ (EntryHandled /\ \E i \in 1..Len(last'.calls) : Failed(last'.calls[i]))
            => /\ pc' = "sweep" /\ raised_in' = "none"
               /\ feed_i' = feed_i /\ in_feed' = in_feed
        /\ (EntryHandled /\ Call("article_fetch", "exc") \in Range(last'.calls))
            => Sends(last'.calls) # {} ]_vars

\* C18 witness: in one run an entry was attempted and not delivered, and the
\* entry after it had its article fetch raise, was attempted, delivered and
\* recorded; the run is still in its loops.
C18_Witness ==
    /\ pc = "sweep"
    /\ in_feed
    /\ Len(Lines(run)) = 2
    /\ Lines(run)[1].sent /\ ~Lines(run)[1].delivered
    /\ last.n > 0 /\ last.run = run
    /\ Call("article_fetch", "exc") \in Range(last.calls)
    /\ Lines(run)[2].recorded

\* The image requests among the calls (sendPhoto by URL or by file upload)
ImageSends(calls) ==
    {i \in 1..Len(calls) : calls[i].call \in {"send_photo_url", "send_photo_file"}}

TextSends(calls) == {i \in 1..Len(calls) : calls[i].call = "send_message"}

\* C19: for a candidate with an image, when no image request returned 200
\* exactly one sendMessage request follows, and when one did none follows;
\* and the candidate counts as delivered (posted_ok) exactly when an image
\* request or that sendMessage request returned 200.
C19_ImageFallback ==
    [][ (EntryHandled /\ last'.top_image)
            => LET c == last'.calls
                   imageOk == \E i \in ImageSends(c) : c[i].res = "ok"
               IN  /\ ImageSends(c) # {}
                   /\ Cardinality(TextSends(c)) = IF imageOk THEN 0 ELSE 1
                   /\ last'.posted_ok <=> Successes(c) > 0 ]_vars

IsPrefix(a, b) == Len(a) <= Len(b) /\ SubSeq(b, 1, Len(a)) = a

\* C20: within a run the store changes only in a loop-body step that called
\* record_posted, and then by one record added at the end (a step that found
\* a duplicate, skipped or failed leaves it as it was); the records loaded
\* stay the first records of the store, unchanged, and of the state file once
\* save_posted has returned.
C20_AppendOnly ==
    /\ [][ \/ posted' = posted
           \/ run' = run + 1
           \/ /\ EntryHandled
              /\ last'.calls[Len(last'.calls)] = Call("record_posted", "ok")
              /\ posted.kind = "dict"
              /\ Len(posted'.items) = Len(posted.items) + 1
              /\ IsPrefix(posted.items, posted'.items)
              /\ IsEntry(posted'.items[Len(posted'.items)], Handled) ]_vars
    /\ [](posted0.kind = "dict"
            => /\ posted.kind = "dict"
               /\ IsPrefix(posted0.items, posted.items))
    /\ []((pc = "done" /\ save_calls = 1)
            => IsPrefix(posted0.items, load_posted(file, FALSE).items))

\* C20 witness: a run that loaded a record appended another, wrote the state
\* file and returned.
C20_Witness ==
    /\ pc = "done" /\ save_calls = 1
    /\ posted0.kind = "dict" /\ posted0.items # <<>>
    /\ Len(posted.items) = Len(posted0.items) + 1
    /\ load_posted(file, FALSE) = posted

\* C21: a candidate with an empty link is never classified duplicate with
\* reason exact_link, whatever the store holds.
C21_ExactLinkNeedsLink ==
    [][ (EntryHandled /\ last'.link = NoLink)
            => ~(last'.dup /\ last'.reason = "exact_link") ]_vars

\* No two of the records have the same non-empty link
UniqueLinks(items) ==
    \A i, j \in 1..Len(items) :
        (i # j /\ items[i].link # NoLink) => items[i].link # items[j].link

\* C22: when the store a run loaded holds no two records with the same
\* non-empty link, neither does the store at any point of the run, nor the
\* state file whenever it is a complete document.
C22_LinksStayUnique ==
    (posted0.kind = "dict" /\ UniqueLinks(posted0.items))
        => /\ UniqueLinks(posted.items)
           /\ file.kind = "store" => UniqueLinks(load_posted(file, FALSE).items)

\* C22 witness: a run appended a record with a link, then classified an entry
\* with that link duplicate by exact_link, and the store holds the link once.
C22_Witness ==
    /\ last.n > 0 /\ last.run = run
    /\ last.link # NoLink
    /\ last.dup /\ last.reason = "exact_link"
    /\ Appended > 0
    /\ posted.items[Len(posted.items)].link = last.link
    /\ UniqueLinks(posted.items)

\* C23: an entry whose link and title are those of a record of the store is
\* classified duplicate and nothing is sent for it.
C23_RecordedIsDuplicate ==
    [][ (/\ EntryHandled
         /\ fuzzy_threshold <= 100
         /\ posted.kind = "dict"
         /\ \E i \in 1..Len(posted.items) : IsEntry(posted.items[i], Handled))
            => last'.dup /\ Sends(last'.calls) = {} ]_vars

\* C24: among the delivery requests made for one candidate none follows a
\* request that returned 200.
C24_NoSendAfterSuccess ==
    [][ EntryHandled
            => LET c == last'.calls
               IN  \A i, j \in Sends(c) : (i < j) => c[i].res # "ok" ]_vars

====
